---- MODULE Spec2Model ----
(***************************************************************************)
(* A model of telesaver: the sqlite Store (sqlitestorage.py), the          *)
(* DialogSaver pipeline (telesaver.py) and the live handlers (watcher.py). *)
(*                                                                         *)
(* Python dicts are functions whose domain is a set of attribute names.    *)
(* Python's None is modelled per attribute type (see None): the code only  *)
(* ever compares the values of one attribute with each other.              *)
(***************************************************************************)
EXTENDS Integers, Sequences, FiniteSets, TLC

VARIABLES
    dialogs,          \* sqlite table dialogs: id -> [name, folder]
    messages,         \* sqlite table messages: <<dialog, id>> -> row
    dialog_names,     \* Store.dialog_names (cached_property): [cached, value]
    store_changed,    \* Store.changed
    in_transaction,   \* the connection has writes that are not committed
    files,            \* the disk under store/: path -> content
    changed,          \* DialogSaver.changed
    known_dialog_id,  \* DialogSaver._known_dialog_id (0 is None)
    known_cache,      \* DialogSaver._known
    scanned_messages, \* DialogSaver.scanned_messages
    remote,           \* the messaging service: <<dialog, id>> -> its message
    chats,            \* the messaging service: dialog -> its display name, and
                      \* whether it is archived
    observed,         \* <<dialog, id>> -> the texts process_message has seen
    events,           \* number of events the service has emitted (of calls, in
                      \* SpecStore)
    run,              \* the process: down, listening, or where DialogSaver.run is
    call              \* the last operation: its name, arguments, statements issued

vars == <<dialogs, messages, dialog_names, store_changed, in_transaction, files,
          changed, known_dialog_id, known_cache, scanned_messages, remote,
          chats, observed, events, run, call>>

----------------------------------------------------------------------------
(* Bounds of the model *)

\* message ids of a dialog are 1..MaxMsgId
MaxMsgId == 3
\* events (post, edit, read, delete) the messaging service emits in one
\* behaviour; Store calls made in one behaviour of SpecStore
MaxEvents == 3

Dialogs == {1, 2}
\* a broadcast channel of the account
Channels == {3}
Chats == Dialogs \cup Channels
MsgIds == 1..MaxMsgId

----------------------------------------------------------------------------
(* Values *)

\* sqlitestorage.py:13,15,16
DB_FIELDS == <<"id", "datetime", "text", "sender", "media">>
DATETIME_FIELDS == {"datetime", "edit_date", "read_time"}
TIME_FORMAT == "%Y-%m-%d %H:%M:%S%z"

DbFieldSet == {DB_FIELDS[i] : i \in 1..Len(DB_FIELDS)}

\* attribute names by the type of their values
IntKeys == {"id", "sender", "size", "self_destructing", "dialog"}
StrKeys == {"text"}
BoolKeys == {"silent", "from_scheduled", "deleted"}
TupleKeys == {"media", "hash", "prev"}

\* a datetime.datetime: seconds, microseconds, and whether it carries tzinfo
\* (utc) or is naive
Aware(t) == [t |-> t, us |-> 0, tz |-> "utc"]
Naive(t, us) == [t |-> t, us |-> us, tz |-> "naive"]
NoneTime == [t |-> 0, us |-> 0, tz |-> "none"]
NoneStr == "None"
NonePath == <<>>

\* Python's None, as a value of the attribute's type
None(k) ==
    CASE k \in IntKeys -> 0
      [] k \in StrKeys -> NoneStr
      [] k \in BoolKeys -> FALSE
      [] k \in TupleKeys -> <<>>
      [] k \in DATETIME_FIELDS -> NoneTime

\* Python truthiness: None, 0, False, '' and [] are falsy
Truthy(k, v) ==
    /\ v # None(k)
    /\ k \in StrKeys => v # ""

\* dict.get(k)
Get(m, k) == IF k \in DOMAIN m THEN m[k] ELSE None(k)

Restrict(m, keys) == [k \in (DOMAIN m) \cap keys |-> m[k]]

\* {**a, **b}
Merge(a, b) ==
    [k \in (DOMAIN a) \cup (DOMAIN b) |-> IF k \in DOMAIN b THEN b[k] ELSE a[k]]

\* {k: v for k, v in msg.items() if v}
DropFalsy(m) == Restrict(m, {k \in DOMAIN m : Truthy(k, m[k])})

EmptyDict == [k \in {} |-> 0]

----------------------------------------------------------------------------
(* Timestamps: sqlitestorage.py:73-81, util.py:18-27 *)

IsDatetime(v) == "tz" \in DOMAIN v
IsTimeString(v) == "sec" \in DOMAIN v

\* pytz.utc.localize of a naive datetime: same wall clock, tzinfo utc
Localize(dt) == [dt EXCEPT !.tz = "utc"]

\* a variant of Strftime that writes the legacy format, without the offset;
\* the round trip of C6 tells it from Strftime
StrftimeLegacy(dt) ==
    [fmt |-> "%Y-%m-%d %H:%M:%S", sec |-> dt.t, z |-> ""]

\* strftime(TIME_FORMAT): whole seconds; %z is +0000 for utc and empty for a
\* naive datetime
Strftime(dt) ==
    [fmt |-> TIME_FORMAT, sec |-> dt.t, z |-> IF dt.tz = "utc" THEN "+0000" ELSE ""]

\* util.parse_time: '%Y-%m-%d %H:%M:%S%z' first, then '%Y-%m-%d %H:%M:%S'
parse_time(s) ==
    IF s.z # "" THEN [t |-> s.sec, us |-> 0, tz |-> "utc"]
    ELSE [t |-> s.sec, us |-> 0, tz |-> "naive"]

\* the loop of add_msg over DATETIME_FIELDS
ConvertTimes(msg) ==
    [k \in DOMAIN msg |->
        IF k \in DATETIME_FIELDS /\ Truthy(k, msg[k]) /\ IsDatetime(msg[k])
        THEN Strftime(IF msg[k].tz # "utc" THEN Localize(msg[k]) ELSE msg[k])
        ELSE msg[k]]

----------------------------------------------------------------------------
(* The state the operations work on.  Every operation of the code is an     *)
(* operator from such a record to the record after it; sql collects the    *)
(* statements it issues, dirty and ret what check_changed and              *)
(* process_message report, metadata what save_media returns, downloaded    *)
(* whether it called message.download_media and path whether that call     *)
(* returned a path.                                                        *)

State ==
    [dialogs |-> dialogs, messages |-> messages, dialog_names |-> dialog_names,
     store_changed |-> store_changed, in_transaction |-> in_transaction,
     files |-> files, changed |-> changed, known_dialog_id |-> known_dialog_id,
     known_cache |-> known_cache, scanned_messages |-> scanned_messages,
     sql |-> <<>>, dirty |-> FALSE, ret |-> FALSE, metadata |-> EmptyDict,
     downloaded |-> FALSE, path |-> FALSE]

Becomes(S) ==
    /\ dialogs' = S.dialogs
    /\ messages' = S.messages
    /\ dialog_names' = S.dialog_names
    /\ store_changed' = S.store_changed
    /\ in_transaction' = S.in_transaction
    /\ files' = S.files
    /\ changed' = S.changed
    /\ known_dialog_id' = S.known_dialog_id
    /\ known_cache' = S.known_cache
    /\ scanned_messages' = S.scanned_messages

----------------------------------------------------------------------------
(* Store: sqlitestorage.py *)

\* the row add_msg inserts: the fixed columns and the json of the rest
MsgRow(dialog_id, msg) ==
    LET m == ConvertTimes(msg)
    IN [dialog |-> dialog_id,
        id |-> Get(m, "id"),
        datetime |-> Get(m, "datetime"),
        text |-> Get(m, "text"),
        sender |-> Get(m, "sender"),
        media |-> Get(m, "media"),
        extra |-> Restrict(m, (DOMAIN m) \ DbFieldSet)]

\* INSERT OR REPLACE on a table with a primary key; dict[key] = value
Upsert(table, key, row) ==
    [k \in (DOMAIN table) \cup {key} |-> IF k = key THEN row ELSE table[k]]

\* a variant of AddMsgWrites without the early return; C8 tells it from
\* AddMsgWrites
AddMsgWritesAlways(msg) == TRUE

\* add_msg returns before writing when the message has no 'datetime'
AddMsgWrites(msg) == "datetime" \in DOMAIN msg

\* Store.add_msg
add_msg(S, dialog_id, msg) ==
    IF ~AddMsgWrites(msg) THEN S
    ELSE [S EXCEPT
            !.messages = Upsert(@, <<dialog_id, Get(msg, "id")>>, MsgRow(dialog_id, msg)),
            !.sql = Append(@, "INSERT messages"),
            !.store_changed = TRUE,
            !.in_transaction = TRUE]

\* Store.dialog_names, a cached_property: the first access runs the SELECT
LoadDialogNames(S) ==
    IF S.dialog_names.cached THEN S
    ELSE [S EXCEPT !.dialog_names = [cached |-> TRUE, value |-> S.dialogs]]

\* a variant of SetDialogName that leaves the cached dict as it is; C7 tells
\* it from SetDialogName
SetDialogNameStale(S, dialog_id, name, folder) ==
    S

\* the assignment self.dialog_names[dialog_id] = dict(name=..., folder=...)
SetDialogName(S, dialog_id, name, folder) ==
    [LoadDialogNames(S) EXCEPT
        !.dialog_names.value = Upsert(@, dialog_id, [name |-> name, folder |-> folder])]

\* Store.add_dialog
add_dialog(S, dialog_id, name, folder) ==
    LET S1 == [S EXCEPT
                 !.dialogs = Upsert(@, dialog_id, [name |-> name, folder |-> folder]),
                 !.sql = Append(@, "INSERT dialogs"),
                 !.in_transaction = TRUE]
        S2 == SetDialogName(S1, dialog_id, name, folder)
    IN [S2 EXCEPT !.store_changed = TRUE]

\* a variant of save that commits and keeps the dirty flag; C9 tells it from
\* save
SaveKeepsFlag(S) ==
    IF S.store_changed
    THEN [S EXCEPT !.sql = Append(@, "COMMIT"), !.in_transaction = FALSE]
    ELSE S

\* Store.save
save(S) ==
    IF S.store_changed
    THEN [S EXCEPT !.sql = Append(@, "COMMIT"),
                   !.in_transaction = FALSE,
                   !.store_changed = FALSE]
    ELSE S

\* get_messages_from_cursor.get_msg: a row back to a dict
get_msg(r, with_dialog) ==
    LET cols == [id |-> r.id, datetime |-> r.datetime, text |-> r.text,
                 sender |-> r.sender, media |-> r.media]
        msg == Merge(Merge(cols, r.extra),
                     IF with_dialog THEN [dialog |-> r.dialog] ELSE EmptyDict)
        parsed == [k \in DOMAIN msg |->
                      IF k \in DATETIME_FIELDS /\ IsTimeString(msg[k])
                      THEN parse_time(msg[k]) ELSE msg[k]]
    IN DropFalsy(parsed)

\* Store.known_messages
known_messages(table, dialog_id) ==
    [id \in {k[2] : k \in {x \in DOMAIN table : x[1] = dialog_id}} |->
        get_msg(table[<<dialog_id, id>>], FALSE)]

\* Store.known_message: the rows with that id, whatever their dialog; the dict
\* built from the cursor keeps one of them
known_message(table, message_id) ==
    {get_msg(table[k], TRUE) : k \in {x \in DOMAIN table : x[2] = message_id}}

\* Store.known_media_hash: the media column of the rows with that hash
known_media_hash(table, hash) ==
    {table[k].media : k \in {x \in DOMAIN table : Get(table[x].extra, "hash") = hash}}

----------------------------------------------------------------------------
(* The messaging service and the disk *)

Texts == {"", "a", "b"}
\* a message is posted with this text; an edit gives it any text of Texts
PostTexts == {"a"}
Contents == {1, 2}

\* message.media: nothing, or a photo with its bytes
NoMedia == [kind |-> "none", content |-> 0, photo_id |-> 0, ttl_seconds |-> 0]
Photo(c) == [kind |-> "photo", content |-> c, photo_id |-> c, ttl_seconds |-> 0]
Medias == {NoMedia} \cup {Photo(c) : c \in Contents}

\* telesaver.py:24: web pages and geo points are not passed to save_media
DONT_SAVE_MEDIA_TYPES == {"webpage", "geo"}

\* messages are sent two to a second: ids 1 and 2 at second 1, 3 and 4 at 2
DateOf(id) == (id + 1) \div 2

\* display names, as sequences of characters
Alice == <<"A", "l", "i", "c", "e">>
BobBang == <<"B", "o", "b", "!">>
Bobby == <<"B", "o", "b", "b", "y">>
Names == {Alice, BobBang, Bobby}

\* telethon.utils.get_display_name(chat), dialog.name
DisplayName(d) == chats[d].name

\* string.ascii_letters and string.digits
ascii_letters ==
    {"a", "b", "c", "d", "e", "f", "g", "h", "i", "j", "k", "l", "m",
     "n", "o", "p", "q", "r", "s", "t", "u", "v", "w", "x", "y", "z",
     "A", "B", "C", "D", "E", "F", "G", "H", "I", "J", "K", "L", "M",
     "N", "O", "P", "Q", "R", "S", "T", "U", "V", "W", "X", "Y", "Z"}
digits == {"0", "1", "2", "3", "4", "5", "6", "7", "8", "9"}

\* util.slugify: the characters of the name that are in valid_chars (the
\* names of the model are ascii, the NFKD normalisation leaves them as they
\* are)
valid_chars == {"-", "_", ".", "(", ")", " "} \cup ascii_letters \cup digits
slugify(value) == SelectSeq(value, LAMBDA c : c \in valid_chars)

\* the telethon Message the service delivers for a message it holds
Message(r, d, id) ==
    [id |-> id,
     text |-> r.text,
     from_id |-> d,
     is_self |-> (id % 2 = 0),
     date |-> Aware(DateOf(id)),
     silent |-> FALSE,
     from_scheduled |-> FALSE,
     edit_date |-> IF r.edited THEN Aware(DateOf(id) + 1) ELSE NoneTime,
     media |-> r.media,
     grouped_id |-> 0]

\* util.file_hash (sha256 of the bytes) and os.path.getsize
file_hash(content) == <<"sha256", content>>
getsize(content) == 100

\* os.path.isfile('store/' + path)
isfile(disk, path) == path \in DOMAIN disk

\* copy_in_folder, then os.utime with the date of the message
copy_in_folder(disk, content, dst, mod_time) ==
    Upsert(disk, dst, [content |-> content, mtime |-> mod_time])

----------------------------------------------------------------------------
(* DialogSaver: telesaver.py *)

\* get_media_name: kind, date and extension; the media id for grouped photos;
\* <<>> (None) for media it does not name
get_media_name(message) ==
    IF message.media.kind = "photo"
    THEN <<"photo_", message.date.t,
           IF message.grouped_id # 0 THEN message.media.photo_id ELSE 0, ".jpg">>
    ELSE <<>>

\* DialogSaver.get_folder_name (finds the dialog in dialog_names, or slugifies)
get_folder_name(S, dialog_id, dialog_name) ==
    LET known_dialogs == LoadDialogNames(S).dialog_names.value
    IN IF dialog_id \in DOMAIN known_dialogs
       THEN known_dialogs[dialog_id].folder
       ELSE slugify(dialog_name)

\* a variant of save_dialog that computes the folder from the name it is
\* given, known dialog or not; C12 tells it from save_dialog
SaveDialogNewFolder(S, dialog_id, dialog_name) ==
    IF \/ dialog_id \notin DOMAIN LoadDialogNames(S).dialog_names.value
       \/ LoadDialogNames(S).dialog_names.value[dialog_id].name # dialog_name
    THEN add_dialog(LoadDialogNames(S), dialog_id, dialog_name, slugify(dialog_name))
    ELSE LoadDialogNames(S)

\* DialogSaver.save_dialog
save_dialog(S, dialog_id, dialog_name) ==
    LET S1 == LoadDialogNames(S)
        known_dialogs == S1.dialog_names.value
    IN IF \/ dialog_id \notin DOMAIN known_dialogs
          \/ known_dialogs[dialog_id].name # dialog_name
       THEN add_dialog(S1, dialog_id, dialog_name,
                       get_folder_name(S1, dialog_id, dialog_name))
       ELSE S1

\* DialogSaver.known: the messages of the dialog, cached for the latest dialog
known(S, dialog_id) ==
    IF dialog_id = S.known_dialog_id THEN S
    ELSE [S EXCEPT !.known_cache = known_messages(S.messages, dialog_id),
                   !.known_dialog_id = dialog_id]

\* a variant of download_media that does not write to a known path whose
\* file is missing: it keeps the candidate path; C18 tells it from
\* download_media
DownloadMediaToCandidate(S, message, candidate, ok, first_known) ==
    LET content == message.media.content
        hash == file_hash(content)
        known_hash == known_media_hash(S.messages, hash)
        reuse == known_hash # {} /\ isfile(S.files, first_known)
        full_path == IF reuse THEN first_known ELSE candidate
    IN IF ~ok THEN [S EXCEPT !.metadata = EmptyDict, !.downloaded = TRUE]
       ELSE [S EXCEPT
               !.downloaded = TRUE,
               !.path = TRUE,
               !.files = IF reuse THEN @
                         ELSE copy_in_folder(@, content, full_path, message.date.t),
               !.metadata = [hash |-> hash, size |-> getsize(content),
                             media |-> full_path]]

\* save_media from the download on (telesaver.py:146-181), entered when the
\* candidate path names no file.  ok: download_media returned a path;
\* first_known: the row known_media_hash lists first
download_media(S, message, candidate, ok, first_known) ==
    LET content == message.media.content
        hash == file_hash(content)
        known_hash == known_media_hash(S.messages, hash)
        full_path == IF known_hash # {} THEN first_known ELSE candidate
        new_file == known_hash = {} \/ ~isfile(S.files, full_path)
        ttl == message.media.ttl_seconds
    IN IF ~ok THEN [S EXCEPT !.metadata = EmptyDict, !.downloaded = TRUE]
       ELSE [S EXCEPT
               !.downloaded = TRUE,
               !.path = TRUE,
               !.files = IF new_file
                         THEN copy_in_folder(@, content, full_path, message.date.t)
                         ELSE @,
               !.metadata = Merge([hash |-> hash, size |-> getsize(content),
                                   media |-> full_path],
                                  IF new_file /\ ttl # 0
                                  THEN [self_destructing |-> ttl] ELSE EmptyDict)]

\* a variant of save_media_at that downloads whether or not a file is at the
\* path; C23 tells it from save_media_at
SaveMediaAtAlways(S, message, candidate, ok, first_known) ==
    IF candidate = NonePath THEN [S EXCEPT !.metadata = [media |-> NonePath]]
    ELSE download_media(S, message, candidate, ok, first_known)

\* save_media once the path of the media is chosen (telesaver.py:145-185)
save_media_at(S, message, candidate, ok, first_known) ==
    IF candidate = NonePath THEN [S EXCEPT !.metadata = [media |-> NonePath]]
    ELSE IF isfile(S.files, candidate)
      THEN [S EXCEPT !.metadata = [media |-> candidate]]
    ELSE download_media(S, message, candidate, ok, first_known)

\* save_media after self.known(dialog_id): the path is the known message's,
\* or the folder of the dialog and the name of the media (telesaver.py:130-143)
save_media_of(S, message, dialog_id, ok, first_known) ==
    LET known_messages_ == S.known_cache
        is_known == message.id \in DOMAIN known_messages_
        file_name == get_media_name(message)
    IN IF is_known
         THEN save_media_at(S, message, Get(known_messages_[message.id], "media"),
                            ok, first_known)
       ELSE IF file_name = <<>>
         THEN [S EXCEPT !.metadata = EmptyDict]
       ELSE save_media_at(LoadDialogNames(S), message,
                          <<get_folder_name(S, dialog_id, <<>>), file_name>>,
                          ok, first_known)

\* DialogSaver.save_media
save_media(S, message, dialog_id, ok, first_known) ==
    save_media_of(known(S, dialog_id), message, dialog_id, ok, first_known)

\* a variant of check_changed that does not carry the fields of the known
\* message into the new one; C2 tells it from check_changed
CheckChangedNoCarry(known_msgs, message_id, msg) ==
    IF message_id \notin DOMAIN known_msgs THEN [msg |-> msg, dirty |-> TRUE]
    ELSE
      LET known_msg == known_msgs[message_id]
          edited == Get(msg, "text") # Get(known_msg, "text")
          merged == IF edited
                    THEN Merge(msg, [prev |-> Append(Get(msg, "prev"),
                                                     Get(known_msg, "text"))])
                    ELSE msg
      IN [msg |-> merged,
          dirty |-> \E k \in DOMAIN merged : merged[k] # Get(known_msg, k)]

\* a variant of check_changed that keeps one history entry for each text: a
\* text the history or the known message holds already adds none; C3 tells it
\* from check_changed
CheckChangedDistinctTexts(known_msgs, message_id, msg) ==
    IF message_id \notin DOMAIN known_msgs THEN [msg |-> msg, dirty |-> TRUE]
    ELSE
      LET known_msg == known_msgs[message_id]
          carried == Merge(known_msg, msg)
          prev == Get(carried, "prev")
          edited == /\ Get(carried, "text") # Get(known_msg, "text")
                    /\ \A i \in 1..Len(prev) : prev[i] # Get(carried, "text")
          merged == IF edited
                    THEN Merge(carried,
                               [prev |-> Append(prev, Get(known_msg, "text"))])
                    ELSE carried
      IN [msg |-> merged,
          dirty |-> \E k \in DOMAIN merged : merged[k] # Get(known_msg, k)]

\* DialogSaver.check_changed: the message merged with the known one, and
\* whether it sets self.changed.  A carried 'prev' is the known message's own
\* list, so the append shows in the known message too.
check_changed(known_msgs, message_id, msg) ==
    IF message_id \notin DOMAIN known_msgs THEN [msg |-> msg, dirty |-> TRUE]
    ELSE
      LET known_msg == known_msgs[message_id]
          carried == Merge(known_msg, msg)
          edited == Get(carried, "text") # Get(known_msg, "text")
          merged == IF edited
                    THEN Merge(carried,
                               [prev |-> Append(Get(carried, "prev"),
                                                Get(known_msg, "text"))])
                    ELSE carried
          aliased == IF edited /\ "prev" \in DOMAIN known_msg
                        /\ "prev" \notin DOMAIN msg
                     THEN Merge(known_msg, [prev |-> merged.prev])
                     ELSE known_msg
      IN [msg |-> merged,
          dirty |-> \E k \in DOMAIN merged : merged[k] # Get(aliased, k)]

\* the dict process_message builds from the message, falsy values dropped
MessageDict(message) ==
    DropFalsy([id |-> message.id,
               text |-> message.text,
               sender |-> IF ~message.is_self THEN message.from_id ELSE 0,
               datetime |-> message.date,
               silent |-> message.silent,
               from_scheduled |-> message.from_scheduled,
               edit_date |-> message.edit_date])

\* a variant of IsKnownMessage that reads the cache after the message has
\* entered it; C5 tells it from IsKnownMessage
IsKnownMessageAfterUpdate(S, message_id) ==
    message_id \in DOMAIN Upsert(S.known_cache, message_id, EmptyDict)

\* is_known_message, read before the message enters the cache
IsKnownMessage(S, message_id) == message_id \in DOMAIN S.known_cache

\* process_message from check_changed on (telesaver.py:230-237); cc is what
\* check_changed returns
store_message(S, cc, message, dialog_id, commit) ==
    LET S3 == [S EXCEPT !.changed = @ \/ cc.dirty,
                        !.dirty = cc.dirty,
                        !.ret = IsKnownMessage(S, message.id),
                        !.scanned_messages = @ + 1]
        S4 == add_msg(S3, dialog_id, cc.msg)
        S5 == [S4 EXCEPT !.known_cache = Upsert(@, message.id, cc.msg)]
    IN IF commit THEN save(S5) ELSE S5

\* process_message after save_media (telesaver.py:228-230): msg is the dict
\* of the message with the metadata of its media
merge_message(S, msg, message, dialog_id, commit) ==
    store_message(S, check_changed(S.known_cache, message.id, msg),
                  message, dialog_id, commit)

\* process_message after save_media
process_saved(S, message, dialog_id, commit) ==
    merge_message(known(S, dialog_id), Merge(MessageDict(message), S.metadata),
                  message, dialog_id, commit)

\* DialogSaver.process_message; ret is is_known_message
process_message(S, message, dialog_id, commit, ok, first_known) ==
    process_saved(IF message.media.kind \notin {"none"} \cup DONT_SAVE_MEDIA_TYPES
                  THEN save_media(S, message, dialog_id, ok, first_known)
                  ELSE [S EXCEPT !.metadata = EmptyDict],
                  message, dialog_id, commit)

\* DialogSaver.set_message_attributes.  dialog: the dialog of the row that
\* known_message returns
set_message_attributes(S, message_id, attributes, commit, dialog) ==
    LET found == {r \in known_message(S.messages, message_id) : r.dialog = dialog}
    IN IF found = {} THEN S
       ELSE
         LET row == CHOOSE r \in found : TRUE
             dialog_id == row.dialog
             known_message_ == Restrict(row, (DOMAIN row) \ {"dialog"})
             msg == Merge(known_message_, attributes)
             S1 == known(S, dialog_id)
             S2 == IF message_id \in DOMAIN S1.known_cache
                   THEN [S1 EXCEPT !.known_cache = Upsert(@, message_id, msg)]
                   ELSE S1
             S3 == add_msg(S2, dialog_id, msg)
         IN IF commit THEN save(S3) ELSE S3

----------------------------------------------------------------------------
(* The live handlers: watcher.py *)

----------------------------------------------------------------------------
(* The filter of dialogs and events: watcher.py:13-44 *)

\* a telethon Dialog of the listing, and an event with its chat_id (0: None)
Dialog(chat, d) ==
    [is_dialog |-> TRUE, chat_id |-> d, is_channel |-> d \in Channels,
     archived |-> chat[d].archived]
Event(chat_id) ==
    [is_dialog |-> FALSE, chat_id |-> chat_id, is_channel |-> chat_id \in Channels,
     archived |-> FALSE]

\* get_dialogs, cached for 15 minutes: the dialogs of client.get_dialogs(),
\* here with their archived flag, as they were when the cache was filled
get_dialogs(cache, chat) ==
    IF cache.cached THEN cache
    ELSE [cached |-> TRUE, value |-> [d \in DOMAIN chat |-> chat[d].archived]]

\* filter_event: True, or False/None (both falsy)
filter_event(event, cache, chat) ==
    IF ~event.is_dialog /\ event.chat_id = 0 THEN TRUE
    ELSE IF event.is_channel THEN FALSE
    ELSE IF ~event.is_dialog
      THEN LET dialogs_ == get_dialogs(cache, chat).value
           IN IF event.chat_id \notin DOMAIN dialogs_ THEN TRUE
              ELSE ~dialogs_[event.chat_id]
    ELSE ~event.archived

\* the cache of get_dialogs after filter_event(event)
CacheAfter(event, cache, chat) ==
    IF ~event.is_dialog /\ event.chat_id # 0 /\ ~event.is_channel
    THEN get_dialogs(cache, chat)
    ELSE cache

----------------------------------------------------------------------------
(* The handlers of wait_for_updates: watcher.py:53-81 *)

\* message_updated_handler, for NewMessage and MessageEdited
message_updated_handler(S, message, chat_id, ok, first_known) ==
    process_message(save_dialog(S, chat_id, DisplayName(chat_id)),
                    message, chat_id, TRUE, ok, first_known)

\* a variant of set_attributes_of_all that gives up the rest of the event at
\* the first id the store does not hold; C19 tells it from
\* set_attributes_of_all
RECURSIVE SetAttributesUntilUnknown(_, _, _, _)
SetAttributesUntilUnknown(S, message_ids, attributes, dialog_of) ==
    IF message_ids = <<>> THEN S
    ELSE IF known_message(S.messages, Head(message_ids)) = {} THEN S
    ELSE SetAttributesUntilUnknown(
            set_message_attributes(S, Head(message_ids), attributes, FALSE,
                                   Head(dialog_of)),
            Tail(message_ids), attributes, Tail(dialog_of))

\* the loop of message_read_handler and message_delete_handler over the ids
\* of the event; dialog_of[i] is the dialog of the row known_message returns
\* for the i-th id
RECURSIVE set_attributes_of_all(_, _, _, _)
set_attributes_of_all(S, message_ids, attributes, dialog_of) ==
    IF message_ids = <<>> THEN S
    ELSE set_attributes_of_all(
            set_message_attributes(S, Head(message_ids), attributes, FALSE,
                                   Head(dialog_of)),
            Tail(message_ids), attributes, Tail(dialog_of))

\* a variant of message_read_handler without the commit after the loop; C13
\* tells it from message_read_handler
MessageReadHandlerNoCommit(S, message_ids, utcnow, dialog_of) ==
    set_attributes_of_all(S, message_ids, [read_time |-> utcnow], dialog_of)

\* message_read_handler: read_time is datetime.utcnow()
message_read_handler(S, message_ids, utcnow, dialog_of) ==
    save(set_attributes_of_all(S, message_ids, [read_time |-> utcnow], dialog_of))

\* a variant of message_delete_handler that removes the content of the
\* messages it flags; C11 tells it from message_delete_handler
MessageDeleteHandlerPurge(S, deleted_ids, dialog_of) ==
    save(set_attributes_of_all(S, deleted_ids,
                               [deleted |-> TRUE, text |-> "", media |-> NonePath],
                               dialog_of))

\* message_delete_handler
message_delete_handler(S, deleted_ids, dialog_of) ==
    save(set_attributes_of_all(S, deleted_ids, [deleted |-> TRUE], dialog_of))

----------------------------------------------------------------------------
(* The program: a process is started to listen (wait_for_updates) or to     *)
(* backfill (DialogSaver.run), telesaver.py:295-310; the service posts and *)
(* edits messages whether or not a process listens.                        *)

\* the cache of get_dialogs (watcher.py:13): empty in a new process
NoDialogs == [cached |-> FALSE, value |-> EmptyDict]

Position(pc) ==
    [pc |-> pc, recent_only |-> FALSE, instant |-> NoneTime,
     todo |-> <<>>, dialog |-> 0,
     queue |-> <<>>, delivered |-> <<>>, processed |-> <<>>, start_ids |-> {},
     get_dialogs |-> NoDialogs, tasks |-> <<>>]

Call(op, dialog_id, message_id, S, replay) ==
    [op |-> op, event |-> op, chat |-> dialog_id,
     dialog |-> dialog_id, id |-> message_id, ids |-> <<>>,
     sql |-> S.sql, dirty |-> S.dirty, is_known |-> S.ret,
     downloaded |-> S.downloaded, path |-> S.path,
     new_file |-> S.files # files, replay |-> replay]

\* Store() and DialogSaver(): the tables and the disk are what they were
NewProcess(S) ==
    [S EXCEPT !.dialog_names = [cached |-> FALSE, value |-> EmptyDict],
              !.store_changed = FALSE,
              !.in_transaction = FALSE,
              !.changed = FALSE,
              !.known_dialog_id = 0,
              !.known_cache = EmptyDict,
              !.scanned_messages = 0]

Init ==
    /\ dialogs = EmptyDict
    /\ messages = EmptyDict
    /\ dialog_names = [cached |-> FALSE, value |-> EmptyDict]
    /\ store_changed = FALSE
    /\ in_transaction = FALSE
    /\ files = EmptyDict
    /\ changed = FALSE
    /\ known_dialog_id = 0
    /\ known_cache = EmptyDict
    /\ scanned_messages = 0
    /\ remote = EmptyDict
    /\ chats = [d \in Chats |->
                  [name |-> IF d = 1 THEN Alice ELSE BobBang, archived |-> FALSE]]
    /\ observed = EmptyDict
    /\ events = 0
    /\ run = Position("down")
    /\ call = Call("init", 0, 0, State, FALSE)

IdsOf(table, d) == {k[2] : k \in {x \in DOMAIN table : x[1] = d}}

\* the id the service gives the next message of a dialog
NextId(d) == Cardinality(IdsOf(remote, d)) + 1

\* the rows known_media_hash may list first for the media of a message
FirstKnown(message) ==
    LET rows == known_media_hash(messages, file_hash(message.media.content))
    IN IF rows = {} THEN {NonePath} ELSE rows

\* the dialogs of the rows Store.known_message may return for each id
DialogOf(message_ids) ==
    {f \in [1..Len(message_ids) -> Dialogs] :
        \A i \in 1..Len(message_ids) :
            LET ds == {k[1] : k \in {x \in DOMAIN messages : x[2] = message_ids[i]}}
            IN IF ds = {} THEN f[i] = 1 ELSE f[i] \in ds}

\* the ids one read or deletion event names
Batches ==
    {<<i>> : i \in MsgIds} \cup
    {<<p[1], p[2]>> : p \in {q \in MsgIds \X MsgIds : q[1] # q[2]}}

Posted(text, media) ==
    [text |-> text, media |-> media, edited |-> FALSE, seen |-> FALSE]

\* process_message has seen the message as the service holds it now
Seen(table, key) ==
    [table EXCEPT ![key].seen = TRUE]

Observe(key, text) ==
    Upsert(observed, key,
           (IF key \in DOMAIN observed THEN observed[key] ELSE {}) \cup {text})

----------------------------------------------------------------------------
(* Actions *)

\* watcher.py:83-91, a different loop that gives up on a ConnectionError
WaitForUpdatesGivesUp(pc, outcome) ==
    CASE pc = "backoff" -> "catch_up"
      [] outcome = "ConnectionError" -> "down"
      [] pc = "catch_up" -> "listen"
      [] OTHER -> "catch_up"

\* watcher.py:83-91, the position the loop of wait_for_updates moves to:
\* catch_up() returned -> run_until_disconnected(); either of them raised
\* ConnectionError -> sleep(10); sleep(10) or run_until_disconnected()
\* returned -> the next iteration, which starts with catch_up()
wait_for_updates(pc, outcome) ==
    CASE pc = "backoff" -> "catch_up"
      [] outcome = "ConnectionError" -> "backoff"
      [] pc = "catch_up" -> "listen"
      [] OTHER -> "catch_up"

LoopPositions == {"catch_up", "listen", "backoff"}

\* a step of the loop of wait_for_updates: nothing but the position changes
LoopStep(op, pc) ==
    /\ run' = [run EXCEPT !.pc = pc]
    /\ call' = Call(op, 0, 0, State, FALSE)
    /\ UNCHANGED <<dialogs, messages, dialog_names, store_changed, in_transaction,
                   files, changed, known_dialog_id, known_cache, scanned_messages,
                   remote, chats, observed, events>>

\* the program is started with --listen: the handlers are registered and the
\* loop is entered at its first statement, client.catch_up()
StartListen ==
    /\ run.pc = "down"
    /\ run' = Position("catch_up")
    /\ Becomes(NewProcess(State))
    /\ call' = Call("main", 0, 0, State, FALSE)
    /\ UNCHANGED <<remote, chats, observed, events>>

\* the listening process is terminated
StopListen ==
    /\ run.pc \in LoopPositions
    /\ run' = Position("down")
    /\ call' = Call("exit", 0, 0, State, FALSE)
    /\ UNCHANGED <<dialogs, messages, dialog_names, store_changed, in_transaction,
                   files, changed, known_dialog_id, known_cache, scanned_messages,
                   remote, chats, observed, events>>

\* client.catch_up() returns
CatchUp ==
    /\ run.pc = "catch_up"
    /\ LoopStep("catch_up", wait_for_updates(run.pc, "returned"))

\* client.run_until_disconnected() returns without an exception
Disconnected ==
    /\ run.pc = "listen"
    /\ LoopStep("disconnected", wait_for_updates(run.pc, "returned"))

\* client.catch_up() or client.run_until_disconnected() raises ConnectionError
ConnectionLost ==
    /\ run.pc \in {"catch_up", "listen"}
    /\ LoopStep("connection_error", wait_for_updates(run.pc, "ConnectionError"))

\* sleep(10) returns
Backoff ==
    /\ run.pc = "backoff"
    /\ LoopStep("sleep", wait_for_updates(run.pc, "returned"))

\* a message is posted while no process listens
PostUnseen(d, text, media) ==
    /\ run.pc = "down"
    /\ events < MaxEvents
    /\ NextId(d) \in MsgIds
    /\ text # "" \/ media # NoMedia
    /\ remote' = Upsert(remote, <<d, NextId(d)>>, Posted(text, media))
    /\ events' = events + 1
    /\ call' = Call("post", d, NextId(d), State, FALSE)
    /\ UNCHANGED <<dialogs, messages, dialog_names, store_changed, in_transaction,
                   files, changed, known_dialog_id, known_cache, scanned_messages,
                   chats, observed, run>>

\* the text of a message is edited while no process listens
EditUnseen(d, id, text) ==
    /\ run.pc = "down"
    /\ events < MaxEvents
    /\ <<d, id>> \in DOMAIN remote
    /\ text # remote[<<d, id>>].text
    /\ text # "" \/ remote[<<d, id>>].media # NoMedia
    /\ remote' = [remote EXCEPT ![<<d, id>>].text = text,
                                ![<<d, id>>].edited = TRUE,
                                ![<<d, id>>].seen = FALSE]
    /\ events' = events + 1
    /\ call' = Call("edit", d, id, State, FALSE)
    /\ UNCHANGED <<dialogs, messages, dialog_names, store_changed, in_transaction,
                   files, changed, known_dialog_id, known_cache, scanned_messages,
                   chats, observed, run>>

\* the display name of a dialog changes; the program sees the name with the
\* next listing or event of the dialog
RenameDialog(d, name) ==
    /\ run.pc \in {"down", "listen"}
    /\ events < MaxEvents
    /\ name # chats[d].name
    /\ chats' = [chats EXCEPT ![d].name = name]
    /\ events' = events + 1
    /\ call' = Call("rename", d, 0, State, FALSE)
    /\ UNCHANGED <<dialogs, messages, dialog_names, store_changed, in_transaction,
                   files, changed, known_dialog_id, known_cache, scanned_messages,
                   remote, observed, run>>

\* events.NewMessage: a message is posted and message_updated_handler runs
\* a dialog is archived, or taken out of the archive, by the user
ArchiveDialog(d) ==
    /\ run.pc \in {"down", "listen"}
    /\ events < MaxEvents
    /\ chats' = [chats EXCEPT ![d].archived = ~@]
    /\ events' = events + 1
    /\ call' = Call("archive", d, 0, State, FALSE)
    /\ UNCHANGED <<dialogs, messages, dialog_names, store_changed, in_transaction,
                   files, changed, known_dialog_id, known_cache, scanned_messages,
                   remote, observed, run>>

\* the 15 minutes of the cache of get_dialogs are over
GetDialogsExpires ==
    /\ run.pc \in LoopPositions
    /\ run.get_dialogs.cached
    /\ run' = [run EXCEPT !.get_dialogs = NoDialogs]
    /\ call' = Call("get_dialogs_expired", 0, 0, State, FALSE)
    /\ UNCHANGED <<dialogs, messages, dialog_names, store_changed, in_transaction,
                   files, changed, known_dialog_id, known_cache, scanned_messages,
                   remote, chats, observed, events>>

\* a handler, or run, whose filter_event refused the event or the dialog:
\* nothing is called
Filtered(event, chat_id, message_id, message_ids) ==
    /\ call' = [Call("filtered", chat_id, message_id, State, FALSE)
                  EXCEPT !.event = event, !.ids = message_ids]
    /\ UNCHANGED <<dialogs, messages, dialog_names, store_changed, in_transaction,
                   files, changed, known_dialog_id, known_cache, scanned_messages>>

\* a file under store/ is removed from the disk, by the user or a clean-up
FileLost(path) ==
    /\ run.pc \in {"down", "listen"}
    /\ events < MaxEvents
    /\ isfile(files, path)
    /\ files' = [p \in DOMAIN files \ {path} |-> files[p]]
    /\ events' = events + 1
    /\ call' = Call("file_lost", 0, 0, State, FALSE)
    /\ UNCHANGED <<dialogs, messages, dialog_names, store_changed, in_transaction,
                   changed, known_dialog_id, known_cache, scanned_messages,
                   remote, chats, observed, run>>

NewMessage(d, text, media, ok) ==
    /\ run.pc = "listen"
    /\ events < MaxEvents
    /\ NextId(d) \in MsgIds
    /\ text # "" \/ media # NoMedia
    /\ LET id == NextId(d)
           r == Posted(text, media)
       IN IF filter_event(Event(d), run.get_dialogs, chats)
          THEN \E first_known \in FirstKnown(Message(r, d, id)) :
                 LET S == message_updated_handler(State, Message(r, d, id), d, ok,
                                                  first_known)
                 IN /\ Becomes(S)
                    /\ remote' = Upsert(remote, <<d, id>>, [r EXCEPT !.seen = TRUE])
                    /\ observed' = Observe(<<d, id>>, text)
                    /\ call' = Call("new_message", d, id, S, FALSE)
          ELSE /\ Filtered("new_message", d, id, <<>>)
               /\ remote' = IF d \in Dialogs THEN Upsert(remote, <<d, id>>, r)
                             ELSE remote
               /\ UNCHANGED observed
    /\ run' = [run EXCEPT !.get_dialogs = CacheAfter(Event(d), @, chats)]
    /\ events' = events + 1
    /\ UNCHANGED chats

\* events.MessageEdited: the text of a message is edited and
\* message_updated_handler runs
MessageEdited(d, id, text, ok) ==
    /\ run.pc = "listen"
    /\ events < MaxEvents
    /\ d \in Dialogs => <<d, id>> \in DOMAIN remote
    /\ d \in Dialogs => text # remote[<<d, id>>].text
    /\ d \in Dialogs => (text # "" \/ remote[<<d, id>>].media # NoMedia)
    /\ IF filter_event(Event(d), run.get_dialogs, chats)
       THEN LET r == [remote[<<d, id>>] EXCEPT !.text = text, !.edited = TRUE,
                                               !.seen = TRUE]
            IN \E first_known \in FirstKnown(Message(r, d, id)) :
                 LET S == message_updated_handler(State, Message(r, d, id), d, ok,
                                                  first_known)
                 IN /\ Becomes(S)
                    /\ remote' = [remote EXCEPT ![<<d, id>>] = r]
                    /\ observed' = Observe(<<d, id>>, text)
                    /\ call' = Call("message_edited", d, id, S, FALSE)
       ELSE /\ Filtered("message_edited", d, id, <<>>)
            /\ remote' = IF d \in Dialogs
                          THEN [remote EXCEPT ![<<d, id>>].text = text,
                                              ![<<d, id>>].edited = TRUE,
                                              ![<<d, id>>].seen = FALSE]
                          ELSE remote
            /\ UNCHANGED observed
    /\ run' = [run EXCEPT !.get_dialogs = CacheAfter(Event(d), @, chats)]
    /\ events' = events + 1
    /\ UNCHANGED chats

\* the ids of an event of chat d are ids of messages of d; the model keeps
\* no message of a channel, whose ids are its own
EventIds(d, message_ids) ==
    d \in Dialogs =>
        \A i \in 1..Len(message_ids) : <<d, message_ids[i]>> \in DOMAIN remote

\* event.chat_id of a read event of chat d: messages read up to one id in the
\* chat, or, for a list of ids whose contents were read, the channel or None
ReadChat(d, message_ids) ==
    IF d \in Channels \/ Len(message_ids) = 1 THEN d ELSE 0

\* event.chat_id of a deletion event of chat d: the channel, or None
DeletedChat(d) == IF d \in Channels THEN d ELSE 0

\* events.MessageRead
MessageRead(d, message_ids, utcnow) ==
    /\ run.pc = "listen"
    /\ events < MaxEvents
    /\ EventIds(d, message_ids)
    /\ LET event == Event(ReadChat(d, message_ids))
       IN /\ IF filter_event(event, run.get_dialogs, chats)
             THEN \E dialog_of \in DialogOf(message_ids) :
                    LET S == message_read_handler(State, message_ids, utcnow,
                                                  dialog_of)
                    IN /\ Becomes(S)
                       /\ call' = [Call("message_read", dialog_of[1],
                                         message_ids[1], S, FALSE)
                                     EXCEPT !.ids = message_ids, !.chat = d]
             ELSE Filtered("message_read", d, message_ids[1], message_ids)
          /\ run' = [run EXCEPT !.get_dialogs = CacheAfter(event, @, chats)]
    /\ events' = events + 1
    /\ UNCHANGED <<remote, chats, observed>>

\* events.MessageDeleted
MessageDeleted(d, deleted_ids) ==
    /\ run.pc = "listen"
    /\ events < MaxEvents
    /\ EventIds(d, deleted_ids)
    /\ LET event == Event(DeletedChat(d))
       IN /\ IF filter_event(event, run.get_dialogs, chats)
             THEN \E dialog_of \in DialogOf(deleted_ids) :
                    LET S == message_delete_handler(State, deleted_ids, dialog_of)
                    IN /\ Becomes(S)
                       /\ call' = [Call("message_deleted", dialog_of[1],
                                         deleted_ids[1], S, FALSE)
                                     EXCEPT !.ids = deleted_ids, !.chat = d]
             ELSE Filtered("message_deleted", d, deleted_ids[1], deleted_ids)
          /\ run' = [run EXCEPT !.get_dialogs = CacheAfter(event, @, chats)]
    /\ events' = events + 1
    /\ UNCHANGED <<remote, chats, observed>>

RECURSIVE Descending(_)
Descending(ids) ==
    IF ids = {} THEN <<>>
    ELSE LET m == CHOOSE x \in ids : \A y \in ids : y <= x
         IN <<m>> \o Descending(ids \ {m})

RECURSIVE Ascending(_)
Ascending(ids) ==
    IF ids = {} THEN <<>>
    ELSE LET m == CHOOSE x \in ids : \A y \in ids : x <= y
         IN <<m>> \o Ascending(ids \ {m})

\* client.iter_dialogs(): the dialogs that hold messages, and the channels
iter_dialogs == Ascending({k[1] : k \in DOMAIN remote} \cup Channels)

\* client.iter_messages(dialog): the ids of its messages, newest first
iter_messages(d) == Descending(IdsOf(remote, d))

\* the instants run is given as recent_only: aware datetimes, as message.date
CutoffInstants == {Aware(2)}

\* a variant of ExitCondition that applies the check of known ids under the
\* cutoff instant too; C21 tells it from ExitCondition
ExitConditionBoth(recent_only, instant, message, is_known_message) ==
    \/ instant # NoneTime /\ message.date.t < instant.t
    \/ is_known_message /\ (recent_only \/ instant # NoneTime)

\* a variant of ExitCondition that leaves the loop after the first message of
\* a run with recent_only, known or not; C27 tells it from ExitCondition
ExitConditionFirst(recent_only, instant, message, is_known_message) ==
    IF instant # NoneTime THEN message.date.t < instant.t
    ELSE recent_only

\* the exit conditions of the loop of run over the messages of a dialog;
\* recent_only is the bool run was given and instant is NoneTime, or instant
\* is the datetime it was given
ExitCondition(recent_only, instant, message, is_known_message) ==
    IF instant # NoneTime THEN message.date.t < instant.t
    ELSE recent_only /\ is_known_message

\* the program is started without --listen: DialogSaver.run(recent_only)
StartRun(recent_only) ==
    /\ run.pc = "down"
    /\ remote # EmptyDict
    /\ run' = [Position("dialogs") EXCEPT !.recent_only = recent_only,
                                          !.todo = iter_dialogs]
    /\ Becomes(NewProcess(State))
    /\ call' = Call("run", 0, 0, State, FALSE)
    /\ UNCHANGED <<remote, chats, observed, events>>

\* DialogSaver.run(recent_only=instant)
StartRunSince(instant) ==
    /\ run.pc = "down"
    /\ remote # EmptyDict
    /\ run' = [Position("dialogs") EXCEPT !.instant = instant,
                                          !.todo = iter_dialogs]
    /\ Becomes(NewProcess(State))
    /\ call' = Call("run", 0, 0, State, FALSE)
    /\ UNCHANGED <<remote, chats, observed, events>>

\* run: the next dialog of iter_dialogs is saved and its messages are asked for
RunDialog ==
    /\ run.pc = "dialogs"
    /\ run.todo # <<>>
    /\ LET d == Head(run.todo)
           S == save_dialog(State, d, DisplayName(d))
       IN IF filter_event(Dialog(chats, d), run.get_dialogs, chats)
          THEN /\ Becomes(S)
               /\ run' = [run EXCEPT !.pc = IF iter_messages(d) = <<>>
                                            THEN "dialogs" ELSE "messages",
                                     !.todo = Tail(@),
                                     !.dialog = d,
                                     !.queue = iter_messages(d),
                                     !.delivered = iter_messages(d),
                                     !.processed = <<>>,
                                     !.start_ids = IdsOf(messages, d)]
               /\ call' = Call("run_dialog", d, 0, S, FALSE)
          ELSE /\ Filtered("run_dialog", d, 0, <<>>)
               /\ run' = [run EXCEPT !.todo = Tail(@)]
    /\ UNCHANGED <<remote, chats, observed, events>>

\* run: the next message of the dialog is processed, then the exit conditions
RunMessage(ok) ==
    /\ run.pc = "messages"
    /\ LET d == run.dialog
           id == Head(run.queue)
           message == Message(remote[<<d, id>>], d, id)
       IN \E first_known \in FirstKnown(message) :
            LET S == process_message(State, message, d, FALSE, ok, first_known)
                stop == ExitCondition(run.recent_only, run.instant, message, S.ret)
            IN /\ Becomes(S)
               /\ run' = [run EXCEPT
                            !.pc = IF stop \/ Tail(run.queue) = <<>>
                                   THEN "dialogs" ELSE "messages",
                            !.queue = Tail(@),
                            !.processed = Append(@, id)]
               /\ remote' = Seen(remote, <<d, id>>)
               /\ observed' = Observe(<<d, id>>, message.text)
               /\ call' = Call("run_message", d, id, S, remote[<<d, id>>].seen)
    /\ UNCHANGED <<chats, events>>

\* run: message.download_media raises while the next message is processed
\* (telesaver.py:149 is in no try block): the exception leaves save_media,
\* process_message, run and main, and the process ends with a traceback,
\* before add_msg for the message and before the store.save() of run
RunMessageRaises ==
    /\ run.pc = "messages"
    /\ LET d == run.dialog
           id == Head(run.queue)
           message == Message(remote[<<d, id>>], d, id)
       IN /\ \E first_known \in FirstKnown(message) :
               process_message(State, message, d, FALSE, TRUE, first_known).downloaded
          /\ call' = [Call("raised", d, id, State, remote[<<d, id>>].seen)
                        EXCEPT !.event = "run_message", !.downloaded = TRUE]
    /\ run' = [run EXCEPT !.pc = "aborted"]
    /\ UNCHANGED <<dialogs, messages, dialog_names, store_changed, in_transaction,
                   files, changed, known_dialog_id, known_cache, scanned_messages,
                   remote, chats, observed, events>>

\* run: after the last dialog, store.save(); then the program closes the store
RunEnd ==
    /\ run.pc = "dialogs"
    /\ run.todo = <<>>
    /\ LET S == save(save(State))
       IN /\ Becomes(S)
          /\ call' = Call("run_end", 0, 0, S, FALSE)
    /\ run' = Position("down")
    /\ UNCHANGED <<remote, chats, observed, events>>

Next ==
    \/ StartListen
    \/ StopListen
    \/ CatchUp
    \/ Disconnected
    \/ ConnectionLost
    \/ Backoff
    \/ \E recent_only \in BOOLEAN : StartRun(recent_only)
    \/ \E instant \in CutoffInstants : StartRunSince(instant)
    \/ RunDialog
    \/ \E ok \in BOOLEAN : RunMessage(ok)
    \/ RunMessageRaises
    \/ RunEnd
    \/ \E d \in Dialogs, text \in PostTexts, media \in Medias : PostUnseen(d, text, media)
    \/ \E d \in Dialogs, id \in MsgIds, text \in Texts : EditUnseen(d, id, text)
    \/ \E d \in Dialogs, name \in Names : RenameDialog(d, name)
    \/ \E path \in DOMAIN files : FileLost(path)
    \/ \E d \in Dialogs : ArchiveDialog(d)
    \/ GetDialogsExpires
    \/ \E d \in Chats, text \in PostTexts, media \in Medias, ok \in BOOLEAN :
          NewMessage(d, text, media, ok)
    \/ \E d \in Chats, id \in MsgIds, text \in Texts, ok \in BOOLEAN :
          MessageEdited(d, id, text, ok)
    \/ \E d \in Chats, message_ids \in Batches, utcnow \in {Naive(3, 7)} :
          MessageRead(d, message_ids, utcnow)
    \/ \E d \in Chats, deleted_ids \in Batches : MessageDeleted(d, deleted_ids)

Spec == Init /\ [][Next]_vars

----------------------------------------------------------------------------
(* The Store on its own: any calls of add_msg, add_dialog, save and         *)
(* dialog_names on a fresh Store(filename=None), as tests/test_store.py    *)
(* makes them.                                                             *)

StoreNames == {"name", "Alice"}
StoreFolders == {"folder/", "Alice"}

\* messages as the callers of add_msg build them: process_message (aware
\* dates, falsy values possible in media), set_message_attributes (read_time
\* from utcnow, deleted), and a message without 'datetime'
StoreMsgs ==
    { [id |-> i, datetime |-> Aware(1), text |-> "a"] : i \in MsgIds } \cup
    { [id |-> i, datetime |-> Aware(1), text |-> "", edit_date |-> Aware(2),
       media |-> NonePath, deleted |-> TRUE] : i \in MsgIds } \cup
    { [id |-> i, datetime |-> Aware(1), text |-> "b", prev |-> <<"a">>,
       read_time |-> Naive(3, 7)] : i \in MsgIds } \cup
    { [id |-> i, text |-> "a", sender |-> 1] : i \in MsgIds }

\* the call and its arguments
StoreCall(op, dialog_id, args, S) ==
    [op |-> op, dialog |-> dialog_id, id |-> Get(args, "id"), args |-> args,
     sql |-> S.sql, dirty |-> FALSE, is_known |-> FALSE, replay |-> FALSE]

StoreAddMsg(d, msg) ==
    /\ events < MaxEvents
    /\ LET S == add_msg(State, d, msg)
       IN Becomes(S) /\ call' = StoreCall("add_msg", d, msg, S)
    /\ events' = events + 1
    /\ UNCHANGED <<remote, chats, observed, run>>

StoreAddDialog(d, name, folder) ==
    /\ events < MaxEvents
    /\ LET S == add_dialog(State, d, name, folder)
       IN Becomes(S)
          /\ call' = StoreCall("add_dialog", d, [name |-> name, folder |-> folder], S)
    /\ events' = events + 1
    /\ UNCHANGED <<remote, chats, observed, run>>

StoreSave ==
    /\ events < MaxEvents
    /\ LET S == save(State)
       IN Becomes(S) /\ call' = StoreCall("save", 0, EmptyDict, S)
    /\ events' = events + 1
    /\ UNCHANGED <<remote, chats, observed, run>>

StoreDialogNames ==
    /\ events < MaxEvents
    /\ LET S == LoadDialogNames(State)
       IN Becomes(S) /\ call' = StoreCall("dialog_names", 0, EmptyDict, S)
    /\ events' = events + 1
    /\ UNCHANGED <<remote, chats, observed, run>>

NextStore ==
    \/ \E d \in Dialogs, msg \in StoreMsgs : StoreAddMsg(d, msg)
    \/ \E d \in Dialogs, name \in StoreNames, folder \in StoreFolders :
          StoreAddDialog(d, name, folder)
    \/ StoreSave
    \/ StoreDialogNames

SpecStore == Init /\ [][NextStore]_vars

----------------------------------------------------------------------------
(* Properties of the Store, checked on SpecStore *)

\* the value reading Store.dialog_names gives for a cache and a dialogs table
ReadDialogNames(names, table) ==
    LoadDialogNames([dialog_names |-> names, dialogs |-> table]).dialog_names.value

\* a write to the messages table between two states touches only <<d, id>>
OnlyRecord(d, id) ==
    /\ DOMAIN messages' = (DOMAIN messages) \cup {<<d, id>>}
    /\ \A k \in (DOMAIN messages) \ {<<d, id>>} : messages'[k] = messages[k]

\* the timestamps of a message as aware UTC datetimes of whole seconds
Normalised(msg) ==
    [k \in DOMAIN msg |->
        IF k \in DATETIME_FIELDS /\ msg[k] # NoneTime
        THEN [t |-> msg[k].t, us |-> 0, tz |-> "utc"]
        ELSE msg[k]]

AddMsgWithDatetime(c) == c.op = "add_msg" /\ "datetime" \in DOMAIN c.args

\* C6 as stated: after add_msg of a message with a 'datetime',
\* known_messages(d)[id] is exactly the message written, falsy attributes
\* omitted and every timestamp equal to the one written, and no other record
\* of the table changes.
C6_RoundTripAsWritten ==
    [][AddMsgWithDatetime(call') =>
        /\ known_messages(messages', call'.dialog)[call'.id] = DropFalsy(call'.args)
        /\ OnlyRecord(call'.dialog, call'.id)]_vars

\* C6: after add_msg of a message with a 'datetime', known_messages(d)[id] is
\* the message written with its falsy attributes omitted and each timestamp
\* as an aware UTC datetime of whole seconds (equal to the one written when
\* that was one already, as the dates of messages are), and no other record
\* of the table changes.
C6_RoundTrip ==
    [][AddMsgWithDatetime(call') =>
        /\ known_messages(messages', call'.dialog)[call'.id]
              = DropFalsy(Normalised(call'.args))
        /\ OnlyRecord(call'.dialog, call'.id)]_vars

\* a read_time written from utcnow() (naive, with microseconds) over an
\* earlier record of the same key, next to a record of another key
C6_Witness ==
    /\ call.op = "add_msg"
    /\ "read_time" \in DOMAIN call.args
    /\ call.args.read_time = Naive(3, 7)
    /\ known_messages(messages, call.dialog)[call.id].read_time = Aware(3)
    /\ known_messages(messages, call.dialog)[call.id].text = "b"
    /\ Cardinality(DOMAIN messages) = 2
    /\ events = 3

\* C7: a fresh Store has changed = False and dialog_names = {}; dialog_names
\* always reads as the dialogs table, and add_dialog(id, name, folder) makes
\* it hold that name and folder for id and leaves the other ids as they were,
\* whether or not dialog_names was read before.
C7_DialogCacheCoherent ==
    [][/\ events = 0 =>
            ~store_changed /\ ReadDialogNames(dialog_names, dialogs) = EmptyDict
       /\ ReadDialogNames(dialog_names', dialogs') = dialogs'
       /\ call'.op = "add_dialog" =>
            ReadDialogNames(dialog_names', dialogs')
              = Upsert(ReadDialogNames(dialog_names, dialogs), call'.dialog,
                       call'.args)]_vars

\* add_dialog renames a dialog after dialog_names was read, another dialog
\* being in the table
C7_Witness ==
    /\ call.op = "add_dialog"
    /\ events = 3
    /\ store_changed
    /\ dialog_names.cached
    /\ DOMAIN dialog_names.value = Dialogs
    /\ dialog_names.value[call.dialog] = [name |-> "Alice", folder |-> "Alice"]

\* C8: add_msg of a message without 'datetime' issues no statement and leaves
\* the messages table and Store.changed as they were.
C8_MissingDatetimeSkipped ==
    [][(call'.op = "add_msg" /\ "datetime" \notin DOMAIN call'.args) =>
        /\ call'.sql = <<>>
        /\ messages' = messages
        /\ store_changed' = store_changed
        /\ in_transaction' = in_transaction]_vars

\* a message without 'datetime' is added for a key the table holds, after a
\* save: the record stays and the flag stays off
C8_Witness ==
    /\ call.op = "add_msg"
    /\ "datetime" \notin DOMAIN call.args
    /\ <<call.dialog, call.id>> \in DOMAIN messages
    /\ messages[<<call.dialog, call.id>>].datetime # NoneTime
    /\ ~store_changed

\* C9: Store.changed is true exactly when the connection holds writes that
\* are not committed; save commits exactly when there are such writes and
\* leaves the flag off, so a save right after a save does nothing.
C9_FlushOnlyWhenDirty ==
    [][/\ store_changed' = in_transaction'
       /\ call'.op = "save" =>
            /\ call'.sql = IF in_transaction THEN <<"COMMIT">> ELSE <<>>
            /\ ~store_changed'
            /\ messages' = messages /\ dialogs' = dialogs
       /\ (call'.op = "save" /\ call.op = "save") => call'.sql = <<>>
       /\ call'.op \in {"add_dialog"} => store_changed'
       /\ AddMsgWithDatetime(call') => store_changed']_vars

\* a save with nothing to commit, right after a save that committed a message
C9_Witness ==
    /\ call.op = "save"
    /\ call.sql = <<>>
    /\ events = 3
    /\ messages # EmptyDict
    /\ ~store_changed
    /\ ~in_transaction


----------------------------------------------------------------------------
(* Properties of the program, checked on Spec *)

\* the steps that are a call of process_message
ProcessOps == {"new_message", "message_edited", "run_message"}

\* the stored record of a key, as known_messages returns it
Stored(table, k) == get_msg(table[k], FALSE)

\* C1 as stated: when process_message handles again a message that it has
\* stored and that the service holds unchanged, the call raises no dirty flag
\* and issues no INSERT OR REPLACE, so Store.changed is not set by it.
C1_ReplayWritesNothing ==
    (call.op = "run_message" /\ call.replay) =>
        /\ ~call.dirty
        /\ \A i \in 1..Len(call.sql) : call.sql[i] # "INSERT messages"
        /\ ~store_changed

\* C2: no step removes a stored record or an attribute of a stored record:
\* every key of the record known_messages returns before a step is a key of
\* it after the step.
C2_MonotonicAccumulation ==
    [][\A k \in DOMAIN messages :
          /\ k \in DOMAIN messages'
          /\ DOMAIN Stored(messages, k) \subseteq DOMAIN Stored(messages', k)]_vars

\* a message stored with text and read_time is processed again after its
\* text was removed: the observation has neither attribute, the record both
C2_Witness ==
    /\ call.op = "run_message"
    /\ <<call.dialog, call.id>> \in DOMAIN messages
    /\ remote[<<call.dialog, call.id>>].text = ""
    /\ {"text", "read_time", "hash"}
          \subseteq DOMAIN Stored(messages, <<call.dialog, call.id>>)

\* C3 as stated: when process_message has seen N distinct texts of a message,
\* its stored 'prev' has N-1 entries, and the stored text is the one the
\* service holds when process_message has seen it.
C3_OneEntryPerDistinctText ==
    \A k \in DOMAIN observed :
        k \in DOMAIN messages =>
            /\ Len(Get(Stored(messages, k), "prev")) = Cardinality(observed[k]) - 1
            /\ remote[k].seen =>
                 Get(Stored(messages, k), "text")
                    = IF remote[k].text = "" THEN NoneStr ELSE remote[k].text

\* C3: each call of process_message whose observation has a non-empty text
\* that differs from the stored text appends the stored text (null when there
\* was none) to 'prev' and stores the new text; any other call, one with an
\* empty text included, leaves 'prev' and the stored text as they were.  So
\* 'prev' holds the texts the message had before each change, in the order of
\* the changes, a text that comes back counted again, and the stored text is
\* the latest non-empty text.
C3_EditHistory ==
    [][call'.op \in ProcessOps =>
        LET k == <<call'.dialog, call'.id>>
            text == remote'[k].text
            new == Stored(messages', k)
        IN IF k \notin DOMAIN messages
           THEN /\ "prev" \notin DOMAIN new
                /\ Get(new, "text") = IF text = "" THEN NoneStr ELSE text
           ELSE LET old == Stored(messages, k)
                IN IF text = "" \/ text = Get(old, "text")
                   THEN /\ Get(new, "prev") = Get(old, "prev")
                        /\ Get(new, "text") = Get(old, "text")
                   ELSE /\ Get(new, "prev")
                             = Append(Get(old, "prev"), Get(old, "text"))
                        /\ Get(new, "text") = text]_vars

\* the text of a message went from a to b and back to a: two entries
C3_Witness ==
    /\ call.op \in ProcessOps
    /\ <<call.dialog, call.id>> \in DOMAIN messages
    /\ Get(Stored(messages, <<call.dialog, call.id>>), "prev") = <<"a", "b">>
    /\ Get(Stored(messages, <<call.dialog, call.id>>), "text") = "a"
    /\ observed[<<call.dialog, call.id>>] = {"a", "b"}

\* the stored messages that reference a media path
WithMedia == {k \in DOMAIN messages : messages[k].media # NonePath}

\* C4 as stated: any two stored messages whose media have the same bytes
\* reference the same path, and one file under the store root has those bytes.
C4_DedupCorrect ==
    \A k1 \in WithMedia, k2 \in WithMedia :
        remote[k1].media.content = remote[k2].media.content =>
            /\ messages[k1].media = messages[k2].media
            /\ Cardinality({p \in DOMAIN files :
                              files[p].content = remote[k1].media.content}) = 1

\* C5: in a run with recent_only, the messages of a dialog are processed in
\* the order of their delivery, each is written by add_msg, is_known_message
\* tells whether the id was in the store when the scan of the dialog began,
\* none is processed after the first such id, and the scan does not stop
\* before that id (or the last message delivered) is processed.
C5_TerminationBoundary ==
    (run.recent_only /\ run.dialog # 0) =>
        LET n == Len(run.processed)
            known_at == {i \in 1..Len(run.delivered) :
                            run.delivered[i] \in run.start_ids}
            first == IF known_at = {} THEN Len(run.delivered)
                     ELSE CHOOSE i \in known_at : \A j \in known_at : i <= j
        IN /\ n <= first
           /\ \A i \in 1..n :
                 /\ run.processed[i] = run.delivered[i]
                 /\ <<run.dialog, run.processed[i]>> \in DOMAIN messages
           /\ run.pc = "dialogs" => n = first
           /\ call.op = "run_message" =>
                 /\ call.sql = <<"INSERT messages">>
                 /\ call.id = run.processed[n]
                 /\ call.is_known = (call.id \in run.start_ids)

\* a scan with recent_only has stopped at the second of three messages, the
\* first one known, after writing it; the third was not processed
C5_Witness ==
    /\ run.recent_only
    /\ run.pc = "dialogs"
    /\ run.delivered = <<3, 2, 1>>
    /\ run.processed = <<3, 2>>
    /\ run.start_ids = {1, 2}
    /\ call.op = "run_message"
    /\ call.is_known
    /\ call.sql = <<"INSERT messages">>

\* the rows of a table that carry one hash carry one media path
SameHashSamePath(table) ==
    \A k1 \in DOMAIN table, k2 \in DOMAIN table :
        (/\ Get(table[k1].extra, "hash") # None("hash")
         /\ Get(table[k1].extra, "hash") = Get(table[k2].extra, "hash"))
            => table[k1].media = table[k2].media

\* C10 as stated: the stored messages that carry one hash carry one media
\* path, and a message whose bytes have a hash the table holds already is
\* stored with a path the table holds for that hash.
C10_HashToPathFunctional ==
    [][/\ SameHashSamePath(messages')
       /\ call'.op \in ProcessOps =>
            LET k == <<call'.dialog, call'.id>>
                paths == known_media_hash(messages,
                                          file_hash(remote'[k].media.content))
            IN (/\ remote'[k].media.kind = "photo"
                /\ paths # {}
                /\ messages'[k].media # NonePath)
                  => messages'[k].media \in paths]_vars


\* the ids a read or a deletion event names
IdsOfEvent(c) == {c.ids[i] : i \in 1..Len(c.ids)}

\* C11: no step removes a key of the messages table; a deletion event changes
\* only rows whose id it names, each of them by adding deleted = True to its
\* attributes with the text, the media path and everything else as before,
\* and every id it names that the store holds has a row that carries the
\* flag after it.
C11_Tombstones ==
    [][/\ DOMAIN messages \subseteq DOMAIN messages'
       /\ call'.op = "message_deleted" =>
            /\ DOMAIN messages' = DOMAIN messages
            /\ \A k \in DOMAIN messages :
                 \/ messages'[k] = messages[k]
                 \/ /\ k[2] \in IdsOfEvent(call')
                    /\ messages'[k]
                         = [messages[k] EXCEPT !.extra = Merge(@, [deleted |-> TRUE])]
            /\ \A id \in IdsOfEvent(call') :
                 (\E k \in DOMAIN messages : k[2] = id) =>
                 (\E k \in DOMAIN messages' :
                     k[2] = id /\ Get(messages'[k].extra, "deleted"))]_vars

\* a deletion event has flagged a message that keeps its text, its media path
\* and the hash of its media
C11_Witness ==
    /\ call.op = "message_deleted"
    /\ \E k \in DOMAIN messages :
         /\ k[2] \in IdsOfEvent(call)
         /\ Get(messages[k].extra, "deleted")
         /\ messages[k].text = "a"
         /\ messages[k].media # NonePath
         /\ "hash" \in DOMAIN messages[k].extra
         /\ isfile(files, messages[k].media)

\* the steps that call save_dialog, with the display name of the dialog
SaveDialogOps == {"new_message", "message_edited", "run_dialog"}

\* C12: no step changes the folder of a stored dialog; a step that calls
\* save_dialog leaves the dialog stored under the name it was given, with the
\* slug of that name as its folder when the dialog was not stored before,
\* leaves the other dialogs as they were, and issues no INSERT OR REPLACE INTO
\* dialogs when the stored name is the name it was given.
C12_FolderAssignedOnce ==
    [][/\ \A d \in DOMAIN dialogs :
            d \in DOMAIN dialogs' /\ dialogs'[d].folder = dialogs[d].folder
       /\ call'.op \in SaveDialogOps =>
            LET d == call'.dialog
                name == chats[d].name
                written == \E i \in 1..Len(call'.sql) : call'.sql[i] = "INSERT dialogs"
            IN /\ d \in DOMAIN dialogs'
               /\ dialogs'[d].name = name
               /\ d \notin DOMAIN dialogs => dialogs'[d].folder = slugify(name)
               /\ written <=> (d \notin DOMAIN dialogs \/ dialogs[d].name # name)
               /\ \A e \in DOMAIN dialogs' \ {d} :
                    e \in DOMAIN dialogs /\ dialogs'[e] = dialogs[e]]_vars

\* a dialog first seen as Bob! and renamed to Bobby is saved again: the name
\* is updated, the folder is still Bob
C12_Witness ==
    /\ call.op \in SaveDialogOps
    /\ call.dialog \in DOMAIN dialogs
    /\ call.sql[1] = "INSERT dialogs"
    /\ dialogs[call.dialog] = [name |-> Bobby, folder |-> <<"B", "o", "b">>]
    /\ call.dialog \in DOMAIN dialog_names.value
    /\ dialog_names.value[call.dialog].folder = <<"B", "o", "b">>

\* the steps that are a live event handler
LiveOps == {"new_message", "message_edited", "message_read", "message_deleted"}

----------------------------------------------------------------------------
(* C14: reconnect supervision *)

\* C14: in the listening process every ConnectionError, from catch_up or from
\* run_until_disconnected, leads to the backoff wait and never ends the loop;
\* the wait is followed by a new catch-up; listening is only entered from a
\* catch-up that returned; the loop is left only when the process is ended
\* from outside.
C14_ReconnectSupervision ==
    [][/\ call'.op = "connection_error" =>
            /\ run.pc \in {"catch_up", "listen"}
            /\ run'.pc = "backoff"
       /\ (run.pc = "backoff" /\ run'.pc # "backoff") =>
            run'.pc = "catch_up" \/ call'.op = "exit"
       /\ (run'.pc = "listen" /\ run.pc # "listen") =>
            run.pc = "catch_up" /\ call'.op = "catch_up"
       /\ (run.pc \in LoopPositions /\ run'.pc \notin LoopPositions) =>
            call'.op = "exit"]_vars

\* run_until_disconnected has raised ConnectionError after a message was
\* stored: the loop is in its backoff wait
C14_Witness ==
    /\ run.pc = "backoff"
    /\ call.op = "connection_error"
    /\ DOMAIN messages # {}

----------------------------------------------------------------------------
(* C15: batch flush per dialog *)

Commits(sql) == {i \in 1..Len(sql) : sql[i] = "COMMIT"}

\* what run does: no statement of the scan of a dialog is a COMMIT, and the one
\* store.save() comes after the last dialog
C15_NoCommitWhileScanning ==
    /\ call.op \in {"run_dialog", "run_message"} => Commits(call.sql) = {}
    /\ call.op = "run_end" => ~in_transaction /\ ~store_changed

\* C15 as stated: during a run no commit happens while the messages of a dialog
\* are processed, and when the scan of a dialog starts every write of the
\* dialogs before it is committed.
C15_FlushPerDialog ==
    [][/\ call'.op = "run_message" => Commits(call'.sql) = {}
       /\ call'.op = "run_dialog" => ~in_transaction /\ ~store_changed]_vars

----------------------------------------------------------------------------
(* C16, C17, C18: save_media *)

\* the messages DialogSaver.known(d) returns before a step, and the path it
\* holds for a message
KnownBefore(d) == known(State, d).known_cache
KnownPath(d, id) ==
    IF id \in DOMAIN KnownBefore(d) THEN Get(KnownBefore(d)[id], "media")
    ELSE NonePath

\* C16 as stated: when process_message passes to save_media a message that is
\* known for the dialog with a media path, nothing is downloaded and the
\* message keeps that path, whatever the disk and the store hold.
C16_MediaReplayIdempotent ==
    [][(/\ call'.op \in ProcessOps
        /\ remote'[<<call'.dialog, call'.id>>].media # NoMedia
        /\ KnownPath(call'.dialog, call'.id) # NonePath) =>
            /\ ~call'.downloaded
            /\ messages'[<<call'.dialog, call'.id>>].media
                  = KnownPath(call'.dialog, call'.id)]_vars

\* what save_media does for a known message: the same, as long as a file is
\* at the known path
C16_ReplayWithFile ==
    [][(/\ call'.op \in ProcessOps
        /\ remote'[<<call'.dialog, call'.id>>].media # NoMedia
        /\ KnownPath(call'.dialog, call'.id) # NonePath
        /\ isfile(files, KnownPath(call'.dialog, call'.id))) =>
            /\ ~call'.downloaded
            /\ files' = files
            /\ messages'[<<call'.dialog, call'.id>>].media
                  = KnownPath(call'.dialog, call'.id)]_vars

\* C17 as stated: every stored message that has a media path also has the
\* hash and the size of its media.
C17_MediaMetadataComplete ==
    \A k \in WithMedia :
        /\ Get(messages[k].extra, "hash") = file_hash(remote[k].media.content)
        /\ Get(messages[k].extra, "size") = getsize(remote[k].media.content)

\* the weaker statement of C17: a hash and a size, of whatever content
C17_HasHashAndSize ==
    \A k \in WithMedia : {"hash", "size"} \subseteq DOMAIN messages[k].extra

\* the paths the store records for the bytes of a message of the service
RecordedPaths(k) ==
    known_media_hash(messages, file_hash(remote'[k].media.content))

\* C18: when process_message downloads the media of a message and the store
\* records the hash of its bytes, with paths that name no file, the bytes are
\* written to a recorded path and to no other, the file is there afterwards
\* with those bytes, and the message is stored with that path and the hash.
C18_SelfHeal ==
    [][\A k \in DOMAIN remote' :
         (/\ call'.op \in ProcessOps
          /\ k = <<call'.dialog, call'.id>>
          /\ call'.downloaded /\ call'.path
          /\ RecordedPaths(k) # {}
          /\ \A P \in RecordedPaths(k) : ~isfile(files, P)) =>
              \E P \in RecordedPaths(k) :
                 /\ DOMAIN files' = DOMAIN files \cup {P}
                 /\ \A p \in DOMAIN files : files'[p] = files[p]
                 /\ files'[P].content = remote'[k].media.content
                 /\ k \in DOMAIN messages'
                 /\ messages'[k].media = P
                 /\ Get(messages'[k].extra, "hash")
                       = file_hash(remote'[k].media.content)]_vars

\* a new message has just brought back the file of an older one: its bytes
\* were recorded with a path of which the file was lost, and the new message
\* is stored with that path, not with the one its own name gives
C18_Witness ==
    /\ call.op = "new_message"
    /\ call.downloaded /\ call.path /\ call.new_file
    /\ call.dialog = 2 /\ call.id = 1
    /\ <<1, 1>> \in DOMAIN messages
    /\ dialogs[2].folder # dialogs[1].folder
    /\ messages[<<2, 1>>].media = messages[<<1, 1>>].media
    /\ messages[<<2, 1>>].media[1] = dialogs[1].folder
    /\ DOMAIN files = {messages[<<2, 1>>].media}

----------------------------------------------------------------------------
(* C19: read markers *)

\* the ids of a table
StoredIds(table) == {k[2] : k \in DOMAIN table}

\* a row with the read time of the event, as add_msg writes it, added to its
\* attributes
MarkedRead(row, utcnow) ==
    [row EXCEPT !.extra = Merge(@, ConvertTimes([read_time |-> utcnow]))]

\* C19: a read event adds and removes no row and changes only rows whose id it
\* names, each of them by setting read_time with every other attribute as
\* before; every id it names that the store holds has a row with the read
\* time after it, whatever other ids the event names; an id the store does
\* not hold causes no statement; and the writes are committed.
C19_ReadMarkers ==
    [][call'.op = "message_read" =>
         LET ids == IdsOfEvent(call')
             held == ids \cap StoredIds(messages)
         IN /\ DOMAIN messages' = DOMAIN messages
            /\ \A k \in DOMAIN messages :
                 \/ messages'[k] = messages[k]
                 \/ /\ k[2] \in ids
                    /\ messages'[k] = MarkedRead(messages[k], Naive(3, 7))
            /\ \A id \in held :
                 \E k \in DOMAIN messages :
                    /\ k[2] = id
                    /\ messages'[k] = MarkedRead(messages[k], Naive(3, 7))
                    /\ "read_time" \in DOMAIN messages'[k].extra
            /\ call'.sql = [i \in 1..Cardinality(held) |-> "INSERT messages"]
                             \o (IF held = {} THEN <<>> ELSE <<"COMMIT">>)
            /\ ~store_changed' /\ ~in_transaction']_vars

\* a read event that names an id the store does not hold and then one it
\* holds has marked the latter and committed
C19_Witness ==
    /\ call.op = "message_read"
    /\ Len(call.ids) = 2
    /\ call.ids[1] \notin StoredIds(messages)
    /\ \E k \in DOMAIN messages :
         /\ k[2] = call.ids[2]
         /\ "read_time" \in DOMAIN messages[k].extra
         /\ messages[k].text = "a"
    /\ call.sql = <<"INSERT messages", "COMMIT">>

----------------------------------------------------------------------------
(* C20: channels and archived dialogs *)

\* the steps that start with filter_event: the handlers of the live events and
\* the listing of run
FilterOps ==
    {"new_message", "message_edited", "message_read", "message_deleted",
     "run_dialog"}

\* a broadcast channel, or a dialog that is archived
Excluded(d) == d \in Channels \/ chats[d].archived

\* the events of a chat, of every kind, as filter_event receives them
EventsOf(d) ==
    {Event(d), Event(ReadChat(d, <<1>>)), Event(ReadChat(d, <<1, 2>>)),
     Event(DeletedChat(d))}

\* a step for an event or a listed dialog of chat d writes nothing
WritesNothing ==
    /\ messages' = messages
    /\ dialogs' = dialogs
    /\ files' = files
    /\ call'.sql = <<>>

\* the first half of C20
C20_NoWriteForExcluded ==
    [][(call'.event \in FilterOps /\ Excluded(call'.chat)) => WritesNothing]_vars

\* what the filter does keep out: every event and listing of a channel, and
\* the listing of an archived dialog
C20_ChannelsAndListing ==
    [][/\ (call'.event \in FilterOps /\ call'.chat \in Channels) => WritesNothing
       /\ (call'.event = "run_dialog" /\ Excluded(call'.chat)) => WritesNothing]_vars

\* C20 as stated: no listed dialog and no live event of a channel or of an
\* archived dialog causes a write, and filter_event gives an event of any
\* kind the verdict it gives the dialog of the event.
C20_Exclusion ==
    [][/\ (call'.event \in FilterOps /\ Excluded(call'.chat)) => WritesNothing
       /\ \A d \in Chats : \A event \in EventsOf(d) :
            filter_event(event, run.get_dialogs, chats)
              = filter_event(Dialog(chats, d), run.get_dialogs, chats)]_vars

----------------------------------------------------------------------------
(* C21: the stop policies of run *)

\* the places, in the order of delivery, of the messages older than an instant
OlderThan(delivered, instant) ==
    {i \in 1..Len(delivered) : DateOf(delivered[i]) < instant.t}

\* C21: in a run given an instant, the messages of a dialog are processed in
\* the order of their delivery and stored, up to and including the first one
\* older than the instant and none after it, whether or not their ids were
\* stored before; in a run given False all the messages delivered are
\* processed.
C21_CutoffInstant ==
    /\ (run.instant # NoneTime /\ run.dialog # 0) =>
          LET n == Len(run.processed)
              older == OlderThan(run.delivered, run.instant)
              first == IF older = {} THEN Len(run.delivered)
                       ELSE CHOOSE i \in older : \A j \in older : i <= j
          IN /\ n <= first
             /\ \A i \in 1..n :
                  /\ run.processed[i] = run.delivered[i]
                  /\ <<run.dialog, run.processed[i]>> \in DOMAIN messages
             /\ run.pc = "dialogs" => n = first
    /\ (run.instant = NoneTime /\ ~run.recent_only /\ run.dialog # 0) =>
          /\ \A i \in 1..Len(run.processed) :
                 /\ run.processed[i] = run.delivered[i]
                 /\ <<run.dialog, run.processed[i]>> \in DOMAIN messages
          /\ run.pc = "dialogs" => run.processed = run.delivered

\* a scan given an instant went past a message whose id was stored and
\* stopped after the first message older than the instant
C21_Witness ==
    /\ run.instant = Aware(2)
    /\ run.pc = "dialogs"
    /\ run.delivered = <<3, 2, 1>>
    /\ run.start_ids = {3}
    /\ run.processed = <<3, 2>>
    /\ <<run.dialog, 2>> \in DOMAIN messages
    /\ <<run.dialog, 1>> \notin DOMAIN messages

----------------------------------------------------------------------------
(* C22: failures of one message or event *)

ScanPositions == {"dialogs", "messages"}

\* what run does when the download returns no path, when the media is of no
\* kind it names, or neither: the message is stored and the scan goes on
C22_NoPathIsolated ==
    [][call'.op = "run_message" =>
         /\ run'.pc \in ScanPositions
         /\ <<call'.dialog, call'.id>> \in DOMAIN messages'
         /\ (call'.downloaded /\ ~call'.path /\ ~call'.is_known) =>
               messages'[<<call'.dialog, call'.id>>].media = NonePath]_vars

\* C22 as stated: whatever happens while one message or one event is
\* processed, a scan goes on until run has been through every dialog, and the
\* listen loop goes on until the process is ended from outside.
C22_FailureIsolation ==
    [][/\ run.pc \in ScanPositions =>
            \/ run'.pc \in ScanPositions
            \/ call'.op = "run_end" /\ run.pc = "dialogs" /\ run.todo = <<>>
       /\ run.pc \in LoopPositions =>
            \/ run'.pc \in LoopPositions
            \/ call'.op = "exit"]_vars

----------------------------------------------------------------------------
(* C23, C24: the files of the media *)

\* the path save_media starts from for the message of a process_message
\* step: the one the known message has, or the folder of the dialog and the
\* name of the media
CandidatePath(c) ==
    IF c.id \in DOMAIN KnownBefore(c.dialog) THEN KnownPath(c.dialog, c.id)
    ELSE <<dialogs'[c.dialog].folder,
           get_media_name(Message(remote'[<<c.dialog, c.id>>], c.dialog, c.id))>>

NoPathShared(table, service) ==
    \A k1 \in DOMAIN table, k2 \in DOMAIN table :
        (/\ table[k1].media # NonePath
         /\ table[k2].media # NonePath
         /\ service[k1].media.content # service[k2].media.content)
            => table[k1].media # table[k2].media

\* C24 as stated: two stored messages whose media have different bytes never
\* reference one path, and process_message downloads the media of every
\* message that is new to it and has media.
C24_NoPathSharing ==
    [][/\ NoPathShared(messages', remote')
       /\ (/\ call'.op \in ProcessOps
           /\ ~call'.is_known
           /\ remote'[<<call'.dialog, call'.id>>].media # NoMedia)
              => call'.downloaded]_vars

----------------------------------------------------------------------------
(* C25: the dialog of a read or deletion event *)

\* the attribute a read or a deletion event sets
Marked(row, op) ==
    IF op = "message_read" THEN "read_time" \in DOMAIN row.extra
    ELSE Get(row.extra, "deleted")

\* C25 as stated: a read or deletion event of a chat changes, for each id it
\* names, the record of that id in that chat and no other record.
C25_EventsStayInDialog ==
    [][call'.op \in {"message_read", "message_deleted"} =>
         /\ \A k \in DOMAIN messages :
              messages'[k] # messages[k] =>
                 k[1] = call'.chat /\ k[2] \in IdsOfEvent(call')
         /\ \A id \in IdsOfEvent(call') :
              <<call'.chat, id>> \in DOMAIN messages =>
                 Marked(messages'[<<call'.chat, id>>], call'.op)]_vars

----------------------------------------------------------------------------
(* The handlers of the listening process as tasks of the event loop.  The  *)
(* library starts a task for each update it receives (the client is made   *)
(* with its default, sequential_updates=False, telesaver.py:360), so a     *)
(* handler runs until an await that has to wait and the others run         *)
(* meanwhile.  message_updated_handler waits before it touches the store   *)
(* (watcher.py:56-58: get_chat, get_sender, filter_event) and in           *)
(* save_media for the download (telesaver.py:149); the code between two    *)
(* awaits runs undisturbed.                                                *)

\* events delivered in one behaviour of SpecLive
MaxLiveEvents == 3

LiveTexts == {"a", "b"}
LiveMedias == {NoMedia, Photo(1)}

\* the path save_media starts from (telesaver.py:130-143), after
\* self.known(dialog_id)
FullPath(S, message, dialog_id) ==
    IF message.id \in DOMAIN S.known_cache
    THEN Get(S.known_cache[message.id], "media")
    ELSE IF get_media_name(message) = <<>> THEN NonePath
    ELSE <<get_folder_name(S, dialog_id, <<>>), get_media_name(message)>>

\* save_media has to wait for message.download_media (telesaver.py:145-149)
AwaitsDownload(S, message, dialog_id) ==
    /\ message.media.kind \notin {"none"} \cup DONT_SAVE_MEDIA_TYPES
    /\ FullPath(S, message, dialog_id) # NonePath
    /\ ~isfile(S.files, FullPath(S, message, dialog_id))

\* a handler task: the event it was started for, and the await it is at
Task(event, d, message) ==
    [event |-> event, dialog |-> d, message |-> message, at |-> "get_chat",
     full_path |-> NonePath]

InitLive ==
    /\ dialogs = EmptyDict
    /\ messages = EmptyDict
    /\ dialog_names = [cached |-> FALSE, value |-> EmptyDict]
    /\ store_changed = FALSE
    /\ in_transaction = FALSE
    /\ files = EmptyDict
    /\ changed = FALSE
    /\ known_dialog_id = 0
    /\ known_cache = EmptyDict
    /\ scanned_messages = 0
    /\ remote = EmptyDict
    /\ chats = [d \in Chats |->
                  [name |-> IF d = 1 THEN Alice ELSE BobBang, archived |-> FALSE]]
    /\ observed = EmptyDict
    /\ events = 0
    /\ run = Position("listen")
    /\ call = Call("init", 0, 0, State, FALSE)

\* the texts delivered for a message, in the order of delivery
Delivered(key, text) ==
    Upsert(observed, key,
           Append(IF key \in DOMAIN observed THEN observed[key] ELSE <<>>, text))

\* events.NewMessage is delivered: the library starts a handler task
DeliverNew(d, text, media) ==
    /\ events < MaxLiveEvents
    /\ NextId(d) \in MsgIds
    /\ LET id == NextId(d)
           r == Posted(text, media)
       IN /\ remote' = Upsert(remote, <<d, id>>, r)
          /\ observed' = Delivered(<<d, id>>, text)
          /\ run' = [run EXCEPT !.tasks = Append(@, Task("new_message", d,
                                                         Message(r, d, id)))]
          /\ call' = Call("deliver", d, id, State, FALSE)
    /\ events' = events + 1
    /\ UNCHANGED <<dialogs, messages, dialog_names, store_changed, in_transaction,
                   files, changed, known_dialog_id, known_cache, scanned_messages,
                   chats>>

\* events.MessageEdited is delivered: the library starts a handler task
DeliverEdit(d, id, text) ==
    /\ events < MaxLiveEvents
    /\ <<d, id>> \in DOMAIN remote
    /\ text # remote[<<d, id>>].text
    /\ LET r == [remote[<<d, id>>] EXCEPT !.text = text, !.edited = TRUE]
       IN /\ remote' = [remote EXCEPT ![<<d, id>>] = r]
          /\ observed' = Delivered(<<d, id>>, text)
          /\ run' = [run EXCEPT !.tasks = Append(@, Task("message_edited", d,
                                                         Message(r, d, id)))]
          /\ call' = Call("deliver", d, id, State, FALSE)
    /\ events' = events + 1
    /\ UNCHANGED <<dialogs, messages, dialog_names, store_changed, in_transaction,
                   files, changed, known_dialog_id, known_cache, scanned_messages,
                   chats>>

\* a handler goes on after the awaits of watcher.py:56-58: save_dialog, then
\* process_message up to the await of the download, or to its end when
\* save_media does not download
HandlerResumes(i) ==
    /\ i \in 1..Len(run.tasks)
    /\ run.tasks[i].at = "get_chat"
    /\ LET t == run.tasks[i]
           S0 == save_dialog(State, t.dialog, DisplayName(t.dialog))
           S1 == known(S0, t.dialog)
       IN IF AwaitsDownload(S1, t.message, t.dialog)
          THEN /\ Becomes(IF t.message.id \in DOMAIN S1.known_cache THEN S1
                          ELSE LoadDialogNames(S1))
               /\ run' = [run EXCEPT
                            !.tasks[i].at = "download_media",
                            !.tasks[i].full_path =
                                FullPath(S1, t.message, t.dialog)]
               /\ call' = Call("await_download", t.dialog, t.message.id, S1, FALSE)
          ELSE LET S == process_message(S0, t.message, t.dialog, TRUE, TRUE,
                                        NonePath)
               IN /\ Becomes(S)
                  /\ run' = [run EXCEPT !.tasks[i].at = "done"]
                  /\ call' = Call(t.event, t.dialog, t.message.id, S, FALSE)
    /\ UNCHANGED <<remote, chats, observed, events>>

\* message.download_media returns to a handler: save_media from the hash on,
\* then the rest of process_message (telesaver.py:150-185, 228-237)
DownloadReturns(i, ok) ==
    /\ i \in 1..Len(run.tasks)
    /\ run.tasks[i].at = "download_media"
    /\ LET t == run.tasks[i]
       IN \E first_known \in FirstKnown(t.message) :
            LET S == process_saved(download_media(State, t.message, t.full_path,
                                                  ok, first_known),
                                   t.message, t.dialog, TRUE)
            IN /\ Becomes(S)
               /\ call' = Call(t.event, t.dialog, t.message.id, S, FALSE)
    /\ run' = [run EXCEPT !.tasks[i].at = "done"]
    /\ UNCHANGED <<remote, chats, observed, events>>

NextLive ==
    \/ \E d \in Dialogs, text \in LiveTexts, media \in LiveMedias :
          DeliverNew(d, text, media)
    \/ \E d \in Dialogs, id \in MsgIds, text \in LiveTexts : DeliverEdit(d, id, text)
    \/ \E i \in 1..MaxLiveEvents : HandlerResumes(i)
    \/ \E i \in 1..MaxLiveEvents, ok \in BOOLEAN : DownloadReturns(i, ok)

SpecLive == InitLive /\ [][NextLive]_vars

----------------------------------------------------------------------------
(* C26: interleaved handlers, checked on SpecLive *)

\* every handler started has run to its end
Quiescent == \A i \in 1..Len(run.tasks) : run.tasks[i].at = "done"

Front(s) == SubSeq(s, 1, Len(s) - 1)

\* C26 as stated: once the handlers of the events delivered have all run to
\* their end, in whatever order they were resumed, every message has the text
\* of the event delivered last for it and the texts before it, in the order
\* of delivery, as its history, and the stored messages with the same media
\* bytes reference one path, the only file with those bytes.
C26_AsIfSerial ==
    Quiescent =>
        /\ \A k \in DOMAIN observed :
              /\ k \in DOMAIN messages
              /\ Get(Stored(messages, k), "text") = observed[k][Len(observed[k])]
              /\ Get(Stored(messages, k), "prev") = Front(observed[k])
        /\ \A k1 \in WithMedia, k2 \in WithMedia :
              remote[k1].media.content = remote[k2].media.content =>
                  /\ messages[k1].media = messages[k2].media
                  /\ Cardinality({p \in DOMAIN files :
                         files[p].content = remote[k1].media.content}) = 1

\* the behaviours in which each handler has run to its end before the next
\* event is delivered: C26_AsIfSerial is an invariant of these
NextSerial == NextLive /\ (Quiescent \/ events' = events)

SpecSerial == InitLive /\ [][NextSerial]_vars

\* the behaviours in which the handlers pass the awaits of watcher.py:56-58 in
\* the order of delivery, and only the downloads return in any order
InOrder ==
    \A i \in 1..Len(run.tasks) : \A j \in 1..Len(run.tasks) :
        (i < j /\ run.tasks[i].at = "get_chat") => run.tasks[j].at = "get_chat"

SpecInOrder == InitLive /\ [][NextLive /\ InOrder']_vars

\* a handler of an edit has run to its end while the handler of the new
\* message it edits waits for its download
C26_Overtaken ==
    \E i \in 1..Len(run.tasks) : \E j \in 1..Len(run.tasks) :
        /\ i < j
        /\ run.tasks[i].message.id = run.tasks[j].message.id
        /\ run.tasks[i].dialog = run.tasks[j].dialog
        /\ run.tasks[i].at = "download_media"
        /\ run.tasks[j].at = "done"
----------------------------------------------------------------------------
(* C27: completeness of the scan that stops at a known id *)

\* among the ids of a dialog as the service delivers them, newest first,
\* every id older than one of ids is in ids
DownwardClosed(ids, delivered) ==
    \A i \in 1..Len(delivered) : \A j \in 1..Len(delivered) :
        (i < j /\ delivered[i] \in ids) => delivered[j] \in ids

\* the scan of run.dialog in a run that stops at known ids has ended
KnownIdScanDone ==
    /\ run.pc = "dialogs"
    /\ run.dialog # 0
    /\ run.recent_only
    /\ run.instant = NoneTime

\* the messages delivered before the first id known when the scan began,
\* and that one
UpToFirstKnown(delivered, ids) ==
    LET known_at == {i \in 1..Len(delivered) : delivered[i] \in ids}
    IN IF known_at = {} THEN delivered
       ELSE SubSeq(delivered, 1, CHOOSE i \in known_at : \A j \in known_at : i <= j)

\* C27: when the scan of a dialog in a run that stops at known ids has ended,
\* and the ids stored for the dialog when it began were downward closed in
\* the order of the source, every message of the dialog at the source is in
\* the store, the stored ids are downward closed again, and the scan has
\* processed the messages delivered before the first known id and that
\* message, no other.
C27_KnownIdCompleteness ==
    (KnownIdScanDone /\ DownwardClosed(run.start_ids, run.delivered)) =>
        /\ IdsOf(remote, run.dialog) \subseteq IdsOf(messages, run.dialog)
        /\ DownwardClosed(IdsOf(messages, run.dialog), run.delivered)
        /\ run.processed = UpToFirstKnown(run.delivered, run.start_ids)

\* the scan found the oldest message stored and two newer ones not: it took
\* the three and stopped, and the dialog is whole in the store
C27_Witness ==
    /\ KnownIdScanDone
    /\ run.delivered = <<3, 2, 1>>
    /\ run.start_ids = {1}
    /\ run.processed = <<3, 2, 1>>
    /\ call.op = "run_message"
    /\ call.is_known
    /\ IdsOf(messages, run.dialog) = {1, 2, 3}

\* without the hypothesis: the store held the newest message only, the scan
\* stopped at it and the older ones stay outside the store
C27_GapStays ==
    /\ KnownIdScanDone
    /\ ~DownwardClosed(run.start_ids, run.delivered)
    /\ ~(IdsOf(remote, run.dialog) \subseteq IdsOf(messages, run.dialog))

====
